---- MODULE Spec2Model ----
(***************************************************************************)
(* A model of src/src/app.ts: the observable project store (ProjectState), *)
(* the validator (validate), the input form (ProjectInput) and the two     *)
(* drop-target columns (ProjectList).                                      *)
(*                                                                         *)
(* JavaScript runs every handler to completion on one thread.  A handler   *)
(* that notifies the listeners is modelled as one step for the handler's   *)
(* own code followed by one step per listener callback; while callbacks    *)
(* are pending (stack # << >>) no event handler can start.                 *)
(***************************************************************************)
EXTENDS Integers, Sequences, FiniteSets, TLC

VARIABLES
  projects,      \* ProjectState.projects: the store's internal array
  listeners,     \* State.listeners: the registered callbacks, in order
  stack,         \* updateListeners calls in progress (forEach positions)
  calls,         \* history: the callbacks invoked since the last handler began
  op,            \* history: the handler that ran last, with the store before it
  error,         \* the exception the last handler ended with, if any
  assigned,      \* ProjectList.assignedProjects of the two columns
  form,          \* the values of the three input elements of ProjectInput
  alert,         \* the message of the alert() raised by the last handler
  dataTransfer,  \* DragEvent.dataTransfer 'text/plain' data of the drag
  vdata,         \* the Validatable handed to validate
  vresult        \* what validate returned for vdata

vars == <<projects, listeners, stack, calls, op, error, assigned, form, alert,
          dataTransfer, vdata, vresult>>

storeVars == <<projects, listeners, stack, calls, op, error, assigned>>
uiVars    == <<form, alert, dataTransfer>>
valVars   == <<vdata, vresult>>

-----------------------------------------------------------------------------
(* Bounds of the model.                                                    *)

MaxProjects  == 2   \* addProject is not called once the store holds this many
MaxListeners == 2   \* addListener is not called once this many are registered

-----------------------------------------------------------------------------
(* JavaScript values.  A string is a sequence of one-character strings.   *)
(* A number is NaN or a decimal with one fractional digit, held in tenths  *)
(* (Num(3) is 3, Tenths(25) is 2.5).  An optional property is Undefined    *)
(* when absent and Some(v) when present.                                   *)

Undefined == << >>
Some(v)   == <<v>>

NaN       == [nan |-> TRUE, tenths |-> 0]
Tenths(t) == [nan |-> FALSE, tenths |-> t]
Num(k)    == Tenths(k * 10)

Rep(c, n) == [i \in 1..n |-> c]

SetMin(S) == CHOOSE x \in S : \A y \in S : x <= y

IsSpace(c) == c = " "

\* String.prototype.trim: from the first to the last character that is no
\* white space.
Trim(s) ==
  IF \A i \in 1..Len(s) : IsSpace(s[i]) THEN << >>
  ELSE LET first == CHOOSE i \in 1..Len(s) :
                      ~IsSpace(s[i]) /\ \A j \in 1..(i - 1) : IsSpace(s[j])
           last  == CHOOSE i \in 1..Len(s) :
                      ~IsSpace(s[i]) /\ \A j \in (i + 1)..Len(s) : IsSpace(s[j])
       IN  SubSeq(s, first, last)

DigitChars == <<"0", "1", "2", "3", "4", "5", "6", "7", "8", "9">>

IsDigit(c) == \E d \in 1..10 : DigitChars[d] = c

DigitVal(c) == (CHOOSE d \in 1..10 : DigitChars[d] = c) - 1

RECURSIVE DigitsVal(_)
DigitsVal(s) ==
  IF s = << >> THEN 0
  ELSE 10 * DigitsVal(SubSeq(s, 1, Len(s) - 1)) + DigitVal(s[Len(s)])

AllDigits(s) == Len(s) > 0 /\ \A i \in 1..Len(s) : IsDigit(s[i])

\* An unsigned decimal literal with at most one fractional digit, in tenths.
IsUnsigned(s) ==
  \/ AllDigits(s)
  \/ /\ Len(s) >= 3
     /\ s[Len(s) - 1] = "."
     /\ IsDigit(s[Len(s)])
     /\ AllDigits(SubSeq(s, 1, Len(s) - 2))

UnsignedVal(s) ==
  IF AllDigits(s) THEN 10 * DigitsVal(s)
  ELSE 10 * DigitsVal(SubSeq(s, 1, Len(s) - 2)) + DigitVal(s[Len(s)])

\* Unary plus on a string (the +enteredPeople of gatherUserInput), for
\* texts of spaces, digits, ".", "-" and letters: the trimmed text read as
\* a decimal literal; "" is 0, and a text that is no literal is NaN.
ToNumber(s) ==
  LET t == Trim(s)
  IN  IF t = << >> THEN Num(0)
      ELSE IF IsUnsigned(t) THEN Tenths(UnsignedVal(t))
      ELSE IF t[1] = "-" /\ IsUnsigned(Tail(t)) THEN Tenths(0 - UnsignedVal(Tail(t)))
      ELSE NaN

RECURSIVE NatToString(_)
NatToString(n) ==
  IF n < 10 THEN <<DigitChars[n + 1]>>
  ELSE NatToString(n \div 10) \o <<DigitChars[(n % 10) + 1]>>

\* Number.prototype.toString
NumberToString(x) ==
  IF x.nan THEN <<"N", "a", "N">>
  ELSE LET a    == IF x.tenths < 0 THEN 0 - x.tenths ELSE x.tenths
           sign == IF x.tenths < 0 THEN <<"-">> ELSE << >>
           frac == IF a % 10 = 0 THEN << >> ELSE <<".", DigitChars[(a % 10) + 1]>>
       IN  sign \o NatToString(a \div 10) \o frac

\* >= and <= on numbers: every comparison with NaN is false.
NumGeq(x, y) == ~x.nan /\ ~y.nan /\ x.tenths >= y.tenths
NumLeq(x, y) == ~x.nan /\ ~y.nan /\ x.tenths <= y.tenths

StringValue(s) == [type |-> "string", str |-> s]
NumberValue(x) == [type |-> "number", num |-> x]

\* value.toString()
ValueToString(v) == IF v.type = "string" THEN v.str ELSE NumberToString(v.num)

-----------------------------------------------------------------------------
(* validate (app.ts 90-114).  An absent constraint is Undefined.           *)

Validatable(v, req, minLen, maxLen, mn, mx) ==
  [value |-> v, required |-> req, minLength |-> minLen, maxLength |-> maxLen,
   min |-> mn, max |-> mx]

\* A required test that does not trim the text.
RequiredStepUntrimmed(data, isValid) ==
  IF data.required = Some(TRUE)
  THEN isValid /\ Len(ValueToString(data.value)) # 0
  ELSE isValid

\* if (data.required): truthy only for true
RequiredStep(data, isValid) ==
  IF data.required = Some(TRUE)
  THEN isValid /\ Len(Trim(ValueToString(data.value))) # 0
  ELSE isValid

MinLengthStep(data, isValid) ==
  IF data.minLength # Undefined /\ data.value.type = "string"
  THEN isValid /\ Len(Trim(data.value.str)) >= data.minLength[1]
  ELSE isValid

MaxLengthStep(data, isValid) ==
  IF data.maxLength # Undefined /\ data.value.type = "string"
  THEN isValid /\ Len(Trim(data.value.str)) <= data.maxLength[1]
  ELSE isValid

\* A min test with > in place of >=.
MinStepStrict(data, isValid) ==
  IF data.min # Undefined /\ data.value.type = "number"
  THEN isValid /\ NumGeq(data.value.num, data.min[1]) /\ data.value.num # data.min[1]
  ELSE isValid

MinStep(data, isValid) ==
  IF data.min # Undefined /\ data.value.type = "number"
  THEN isValid /\ NumGeq(data.value.num, data.min[1])
  ELSE isValid

MaxStep(data, isValid) ==
  IF data.max # Undefined /\ data.value.type = "number"
  THEN isValid /\ NumLeq(data.value.num, data.max[1])
  ELSE isValid

validate(data) ==
  MaxStep(data, MinStep(data, MaxLengthStep(data, MinLengthStep(data,
    RequiredStep(data, TRUE)))))

-----------------------------------------------------------------------------
(* Project, ProjectStatus and the store's arrays (app.ts 22-50).           *)

Active   == "Active"
Finished == "Finished"
ProjectStatus == {Active, Finished}

\* new Project(id, title, desc, people, status)
Project(id, title, desc, people, status) ==
  [id |-> id, title |-> title, desc |-> desc, people |-> people, status |-> status]

\* What Math.random().toString() can return: nothing in addProject keeps two
\* calls from returning the same string.
RandomStrings == {"0.25", "0.75"}

\* A string that is the id of no project.
ForeignString == "text"

\* An array is an instance (ref) and its elements.  ProjectsRef is the
\* instance held in ProjectState.projects; every other array is numbered by
\* its creation within the running handler.
ProjectsRef == 0

Array(ref, elems) == [ref |-> ref, elems |-> elems]

\* Array.prototype.find: the first index whose project has the id, 0 for
\* undefined.
FindIndex(ps, projectId) ==
  LET hits == {k \in 1..Len(ps) : ps[k].id = projectId}
  IN  IF hits = {} THEN 0 ELSE SetMin(hits)

\* A filter that keeps every project, whatever its status.
FilterByStatusAll(ps, status) == [k \in 1..Len(ps) |-> k]

\* Array.prototype.filter by status, over object references (indices into
\* the store's array).
FilterByStatus(ps, status) ==
  LET F[k \in 0..Len(ps)] ==
        IF k = 0 THEN << >>
        ELSE IF ps[k].status = status THEN Append(F[k - 1], k) ELSE F[k - 1]
  IN  F[Len(ps)]

-----------------------------------------------------------------------------
(* Listener callbacks (the Listener<T> type, app.ts 39).                   *)

\* The two closures ProjectList.configure registers (app.ts 220-230).
ColumnListeners == {"active", "finished"}

\* Callbacks a caller of addListener may pass: two that only read the array
\* they receive, and one that changes it.
Readers   == {"readerA", "readerB"}
Mutators  == {"mutator"}
\* ... and one that calls the store from inside the callback.
Reentrant == {"reentrant"}
Mutations == {"push", "pop", "reverse"}

Reverse(q) == [k \in 1..Len(q) |-> q[Len(q) + 1 - k]]

\* What a mutation does to the elements of the array it is applied to.
Mutate(elems, m) ==
  CASE m = "push"    -> Append(elems, Project(ForeignString, << >>, << >>, Num(0), Finished))
    [] m = "pop"     -> IF elems = << >> THEN elems ELSE SubSeq(elems, 1, Len(elems) - 1)
    [] m = "reverse" -> Reverse(elems)

\* The column of a ProjectList closure shows the projects of its own status.
ColumnStatus(type) == IF type = "active" THEN Active ELSE Finished

-----------------------------------------------------------------------------
(* ProjectState (app.ts 41-85).                                            *)

\* A store whose updateListeners returns to the event loop between two
\* callbacks, so that a handler can start at any time.
AlwaysIdle == TRUE

\* No updateListeners is in progress: forEach calls the listeners one after
\* the other without returning to the event loop, so an event handler
\* starts only between rounds.
Idle == stack = << >>

\* Array.prototype.forEach fixes the number of elements it visits when it
\* starts; a frame is the position of one forEach in progress.
ForEachStart(stk, ls) ==
  IF ls = << >> THEN stk ELSE Append(stk, [n |-> Len(ls), i |-> 1])

\* A forEach that has visited its last element returns to its caller.
RECURSIVE Return(_)
Return(stk) ==
  IF stk # << >> /\ stk[Len(stk)].i > stk[Len(stk)].n
  THEN Return(SubSeq(stk, 1, Len(stk) - 1))
  ELSE stk

\* A forEach that passes over the listener after the one it has called.
AdvanceSkip(stk) == [stk EXCEPT ![Len(stk)].i = @ + 2]

Advance(stk) == [stk EXCEPT ![Len(stk)].i = @ + 1]

\* An updateListeners that hands out this.projects itself.
SpreadShared(ps, made) == Array(ProjectsRef, ps)

\* [...this.projects]: a new array instance with the store's elements.
Spread(ps, made) == Array(made + 1, ps)

\* An addProject that stores only what passes the form's constraint sets.
PushProjectValidated(ps, rnd, title, desc, people) ==
  IF /\ validate(Validatable(StringValue(title), Some(TRUE), Some(5), Some(40),
                             Undefined, Undefined))
     /\ validate(Validatable(NumberValue(people), Some(TRUE), Undefined, Undefined,
                             Some(Num(1)), Some(Num(10))))
  THEN Append(ps, Project(rnd, title, desc, people, Active))
  ELSE ps

\* A store that puts the new project first (unshift instead of push).
PushProjectFront(ps, rnd, title, desc, people) ==
  <<Project(rnd, title, desc, people, Active)>> \o ps

\* this.projects.push(new Project(Math.random().toString(), ...))
PushProject(ps, rnd, title, desc, people) ==
  Append(ps, Project(rnd, title, desc, people, Active))

NoError   == ""
TypeError == "TypeError"

\* A moveProject without the project && test: project.status of undefined
\* raises a TypeError.
MoveResultUnguarded(ps, projectId, newStatus) ==
  LET k == FindIndex(ps, projectId)
  IN  IF k = 0
      THEN [projects |-> ps, notify |-> FALSE, error |-> TypeError]
      ELSE IF ps[k].status # newStatus
      THEN [projects |-> [ps EXCEPT ![k].status = newStatus], notify |-> TRUE,
            error |-> NoError]
      ELSE [projects |-> ps, notify |-> FALSE, error |-> NoError]

\* A moveProject that also overwrites the title of the project it moves.
MoveResultRetitled(ps, projectId, newStatus) ==
  LET k == FindIndex(ps, projectId)
  IN  IF k # 0 /\ ps[k].status # newStatus
      THEN [projects |-> [ps EXCEPT ![k] = [@ EXCEPT !.status = newStatus,
                                                     !.title = << >>]],
            notify |-> TRUE, error |-> NoError]
      ELSE [projects |-> ps, notify |-> FALSE, error |-> NoError]

\* A moveProject that updates the listeners whenever it finds the project,
\* whether or not the status differs.
MoveResultAlwaysNotify(ps, projectId, newStatus) ==
  LET k == FindIndex(ps, projectId)
  IN  IF k # 0
      THEN [projects |-> [ps EXCEPT ![k].status = newStatus], notify |-> TRUE,
            error |-> NoError]
      ELSE [projects |-> ps, notify |-> FALSE, error |-> NoError]

\* A moveProject that takes the project out of the array and appends it
\* again with the new status.
MoveResultReorder(ps, projectId, newStatus) ==
  LET k == FindIndex(ps, projectId)
  IN  IF k # 0 /\ ps[k].status # newStatus
      THEN [projects |-> Append(SubSeq(ps, 1, k - 1) \o SubSeq(ps, k + 1, Len(ps)),
                                [ps[k] EXCEPT !.status = newStatus]),
            notify |-> TRUE, error |-> NoError]
      ELSE [projects |-> ps, notify |-> FALSE, error |-> NoError]

\* moveProject's test and assignment: the store's array afterwards, whether
\* the listeners are to be updated, and the exception raised.  The test
\* project && ... reads project.status only of a project that was found.
MoveResult(ps, projectId, newStatus) ==
  LET k == FindIndex(ps, projectId)
  IN  IF k # 0 /\ ps[k].status # newStatus
      THEN [projects |-> [ps EXCEPT ![k].status = newStatus], notify |-> TRUE,
            error |-> NoError]
      ELSE [projects |-> ps, notify |-> FALSE, error |-> NoError]

\* The record of a handler: its name, the store's array before it and
\* after its own statements, the id (or listener) and status it was given,
\* the (title, desc, people) it was given, whether it called updateListeners,
\* and the listeners registered when it began.
Op(name, pre, post, id, status, args, notify) ==
  [name |-> name, pre |-> pre, post |-> post, id |-> id, status |-> status,
   args |-> args, notify |-> notify, listeners |-> listeners]

NoOp == [name |-> "none", pre |-> << >>, post |-> << >>, id |-> "", status |-> Active,
         args |-> << >>, notify |-> FALSE, listeners |-> << >>]

\* An addListener that registers at the front (unshift instead of push).
PushListenerFront(ls, fn) == <<fn>> \o ls

\* this.listeners.push(fn)
PushListener(ls, fn) == Append(ls, fn)

\* State.addListener, called by an event handler or at start-up.
AddListener(fn) ==
  /\ Idle
  /\ Len(listeners) < MaxListeners
  /\ listeners' = PushListener(listeners, fn)
  /\ calls' = << >>
  /\ op' = Op("addListener", projects, projects, fn, Active, << >>, FALSE)
  /\ error' = NoError
  /\ UNCHANGED <<projects, stack, assigned>>

\* ProjectState.addProject, called by an event handler.
AddProject(rnd, title, desc, people) ==
  /\ Idle
  /\ Len(projects) < MaxProjects
  /\ projects' = PushProject(projects, rnd, title, desc, people)
  /\ stack' = ForEachStart(stack, listeners)
  /\ calls' = << >>
  /\ op' = Op("addProject", projects, projects', rnd, Active,
              <<title, desc, people>>, TRUE)
  /\ error' = NoError
  /\ UNCHANGED <<listeners, assigned>>

\* ProjectState.moveProject, called by an event handler.
MoveProject(projectId, newStatus) ==
  LET r == MoveResult(projects, projectId, newStatus)
  IN  /\ Idle
      /\ projects' = r.projects
      /\ stack' = IF r.notify THEN ForEachStart(stack, listeners) ELSE stack
      /\ calls' = << >>
      /\ op' = Op("moveProject", projects, projects', projectId, newStatus, << >>,
                  r.notify)
      /\ error' = r.error
      /\ UNCHANGED <<listeners, assigned>>

\* One callback of ProjectState.updateListeners: fn([...this.projects]) for
\* the listener the innermost forEach has reached.
\* A loop over the listeners from the last to the first.
CurrentBackwards(stk, ls) == ls[stk[Len(stk)].n + 1 - stk[Len(stk)].i]

\* The listener a forEach in progress calls next.
Current(stk, ls) == ls[stk[Len(stk)].i]

\* The record of a callback: the listener, the array instance and elements
\* it was given, the nesting depth, and what it did.
Call(fn, arg, did) ==
  [fn |-> fn, ref |-> arg.ref, elems |-> arg.elems, depth |-> Len(stack), did |-> did]

\* The store's array after a callback changed the array it was given.
AfterMutation(ps, arg, m) ==
  IF arg.ref = ProjectsRef THEN Mutate(arg.elems, m) ELSE ps

Notify ==
  /\ stack # << >>
  /\ LET fn  == Current(stack, listeners)
         arg == Spread(projects, Len(calls))
     IN  /\ fn \in Readers \cup Mutators \cup ColumnListeners
         /\ stack' = Return(Advance(stack))
         /\ IF fn \in Mutators
            THEN \E m \in Mutations :
                   /\ projects' = AfterMutation(projects, arg, m)
                   /\ calls' = Append(calls, Call(fn, arg, m))
            ELSE /\ projects' = projects
                 /\ calls' = Append(calls, Call(fn, arg, "read"))
         /\ IF fn \in ColumnListeners
            THEN assigned' = [assigned EXCEPT
                               ![fn] = FilterByStatus(arg.elems, ColumnStatus(fn))]
            ELSE assigned' = assigned
         /\ UNCHANGED <<listeners, op, error>>

-----------------------------------------------------------------------------
(* ProjectInput (app.ts 273-355).                                          *)

TitleMinLength == 5
TitleMaxLength == 40
DescMaxLength  == 140
PeopleMin      == 1
PeopleMax      == 10

Form(title, desc, people) == [title |-> title, desc |-> desc, people |-> people]

\* clearInputs
ClearedForm == Form(<< >>, << >>, << >>)

NoAlert      == ""
InvalidAlert == "invalid input, please try again!"

titleValidatable(f) ==
  Validatable(StringValue(f.title), Some(TRUE), Some(TitleMinLength),
              Some(TitleMaxLength), Undefined, Undefined)

descValidatable(f) ==
  Validatable(StringValue(f.desc), Some(TRUE), Undefined, Some(DescMaxLength),
              Undefined, Undefined)

peopleValidatable(f) ==
  Validatable(NumberValue(ToNumber(f.people)), Some(TRUE), Undefined, Undefined,
              Some(Num(PeopleMin)), Some(Num(PeopleMax)))

\* gatherUserInput: Some([title, desc, people]), or Undefined after alert().
gatherUserInput(f) ==
  IF /\ validate(titleValidatable(f))
     /\ validate(descValidatable(f))
     /\ validate(peopleValidatable(f))
  THEN Some(<<f.title, f.desc, ToNumber(f.people)>>)
  ELSE Undefined

\* What the user may have typed into the three inputs.
GoodForms ==
  { Form(<<" ">> \o Rep("a", 5) \o <<" ">>, <<"d">>, <<"1">>),
    Form(Rep("a", 40), Rep("d", 140), <<" ", "1", "0">>) }

BadTitles == { << >>, Rep(" ", 5), Rep("a", 4), Rep("a", 41) }
BadDescs  == { << >>, <<" ">>, Rep("d", 141) }
BadPeople == { << >>, <<"0">>, <<"1", "1">>, <<"-", "1">>, <<"a">>, <<"0", ".", "9">> }

FormInputs ==
  LET g == Form(Rep("a", 5), <<"d">>, <<"3">>)
  IN  GoodForms
        \cup { [g EXCEPT !.title = t] : t \in BadTitles }
        \cup { [g EXCEPT !.desc = d] : d \in BadDescs }
        \cup { [g EXCEPT !.people = n] : n \in BadPeople }
        \cup { ClearedForm, Form(Rep("a", 41), Rep("d", 141), <<"1", "1">>) }

\* The user edits the input elements (no drag is under way).
TypeInput ==
  /\ Idle
  /\ dataTransfer = Undefined
  /\ \E f \in FormInputs : form' = f
  /\ alert' = NoAlert
  /\ UNCHANGED <<storeVars, dataTransfer, valVars>>

\* ProjectInput.submitHandler.  this.clearInputs() runs when addProject has
\* returned, that is after the last callback of its updateListeners.
submitHandler ==
  /\ Idle
  /\ dataTransfer = Undefined
  /\ LET userInput == gatherUserInput(form)
     IN  IF userInput # Undefined
         THEN /\ \E rnd \in RandomStrings :
                   AddProject(rnd, userInput[1][1], userInput[1][2], userInput[1][3])
              /\ form' = IF stack' = << >> THEN ClearedForm ELSE form
              /\ alert' = NoAlert
         ELSE /\ alert' = InvalidAlert
              /\ calls' = << >>
              /\ op' = Op("submitHandler", projects, projects, "", Active, << >>, FALSE)
              /\ error' = NoError
              /\ UNCHANGED <<projects, listeners, stack, assigned, form>>
  /\ UNCHANGED <<dataTransfer, valVars>>

-----------------------------------------------------------------------------
(* Drag and drop: ProjectItem and ProjectList (app.ts 160-271).            *)

\* The cards on the page: renderProjects makes one ProjectItem per project
\* of a column; a card holds a reference to its project.
Cards == UNION { { assigned[c][k] : k \in 1..Len(assigned[c]) } : c \in ColumnListeners }

\* ProjectItem.dragStartHandler on the card of project k
dragStartHandler(k) ==
  /\ Idle
  /\ dataTransfer = Undefined
  /\ dataTransfer' = Some(projects[k].id)
  /\ alert' = NoAlert
  /\ UNCHANGED <<storeVars, form, valVars>>

\* A drag of plain text that started outside the page.
ForeignDrag ==
  /\ Idle
  /\ dataTransfer = Undefined
  /\ dataTransfer' = Some(ForeignString)
  /\ alert' = NoAlert
  /\ UNCHANGED <<storeVars, form, valVars>>

\* ProjectItem.dragEndHandler: a drag given up without a drop.
dragEndHandler ==
  /\ Idle
  /\ dataTransfer # Undefined
  /\ dataTransfer' = Undefined
  /\ alert' = NoAlert
  /\ UNCHANGED <<storeVars, form, valVars>>

\* ProjectList.dragHandler: the drop on the column of the given type
dragHandler(type) ==
  /\ dataTransfer # Undefined
  /\ MoveProject(dataTransfer[1], ColumnStatus(type))
  /\ dataTransfer' = Undefined
  /\ alert' = NoAlert
  /\ UNCHANGED <<form, valVars>>

-----------------------------------------------------------------------------
(* The store used by any caller: Spec.                                     *)

InitStore ==
  /\ projects = << >>
  /\ stack = << >>
  /\ calls = << >>
  /\ op = NoOp
  /\ error = NoError
  /\ assigned = [c \in ColumnListeners |-> << >>]

InitUi ==
  /\ form = ClearedForm
  /\ alert = NoAlert
  /\ dataTransfer = Undefined

InitVal ==
  /\ vdata = Validatable(StringValue(<< >>), Undefined, Undefined, Undefined,
                         Undefined, Undefined)
  /\ vresult = Undefined

Init == InitStore /\ listeners = << >> /\ InitUi /\ InitVal

\* The (title, desc, people) a caller may pass to addProject: addProject
\* takes whatever it is given.
Triples ==
  { <<Rep("a", 5), <<"d">>, Num(3)>>,
    << << >>, << >>, Num(11)>> }

Subscribe ==
  /\ \E fn \in Readers \cup Mutators : AddListener(fn)
  /\ UNCHANGED <<uiVars, valVars>>

Create ==
  /\ \E rnd \in RandomStrings, t \in Triples : AddProject(rnd, t[1], t[2], t[3])
  /\ UNCHANGED <<uiVars, valVars>>

Transition ==
  /\ \E id \in RandomStrings \cup {ForeignString}, st \in ProjectStatus :
       MoveProject(id, st)
  /\ UNCHANGED <<uiVars, valVars>>

Callback == Notify /\ UNCHANGED <<uiVars, valVars>>

Next == Subscribe \/ Create \/ Transition \/ Callback

Spec == Init /\ [][Next]_vars

-----------------------------------------------------------------------------
(* The page as app.ts builds it: SpecApp.                                  *)

\* After new ProjectInput(), new ProjectList('active') and
\* new ProjectList('finished') (app.ts 357-359).
InitApp == InitStore /\ listeners = <<"active", "finished">> /\ InitUi /\ InitVal

DragStart == \E k \in Cards : dragStartHandler(k)

\* A callback of updateListeners; after the last one of an addProject,
\* submitHandler goes on to clearInputs.
CallbackApp ==
  /\ Notify
  /\ form' = IF stack' = << >> /\ op.name = "addProject" THEN ClearedForm ELSE form
  /\ UNCHANGED <<alert, dataTransfer, valVars>>

Drop == \E type \in ColumnListeners : dragHandler(type)

NextApp ==
  \/ TypeInput
  \/ submitHandler
  \/ DragStart
  \/ ForeignDrag
  \/ dragEndHandler
  \/ Drop
  \/ CallbackApp

SpecApp == InitApp /\ [][NextApp]_vars

-----------------------------------------------------------------------------
(* The page with a user who also types fractions: SpecForm.                *)

\* A number of people that is no integer and lies between min and max.
FractionForms == { Form(Rep("a", 5), <<"d">>, <<"2", ".", "5">>) }

\* The user edits the input elements and leaves a fraction in the third.
TypeFraction ==
  /\ Idle
  /\ dataTransfer = Undefined
  /\ \E f \in FractionForms : form' = f
  /\ alert' = NoAlert
  /\ UNCHANGED <<storeVars, dataTransfer, valVars>>

NextForm == NextApp \/ TypeFraction

SpecForm == InitApp /\ [][NextForm]_vars

-----------------------------------------------------------------------------
(* validate applied to bounded inputs: SpecValidate.                       *)

ValidateValues ==
  { StringValue(x) : x \in { << >>, <<" ", " ">>, <<"a", "b">>,
                             <<" ">> \o Rep("a", 5) \o <<" ">>, Rep("a", 41) } }
    \cup { NumberValue(x) : x \in { Num(0), Num(1), Num(5), Num(10), Num(11), Num(-1),
                                    Tenths(25), NaN } }

ValidateInputs ==
  { Validatable(v, req, minLen, maxLen, mn, mx) :
      v \in ValidateValues,
      req \in { Undefined, Some(TRUE), Some(FALSE) },
      minLen \in { Undefined, Some(0), Some(TitleMinLength) },
      maxLen \in { Undefined, Some(TitleMaxLength) },
      mn \in { Undefined, Some(Num(PeopleMin)), Some(Num(PeopleMax)) },
      mx \in { Undefined, Some(Num(PeopleMax)) } }

InitValidate ==
  /\ InitStore /\ listeners = << >> /\ InitUi
  /\ vdata \in ValidateInputs
  /\ vresult = Undefined

CallValidate ==
  /\ vresult = Undefined
  /\ vresult' = Some(validate(vdata))
  /\ UNCHANGED <<vdata, storeVars, uiVars>>

NextValidatable ==
  /\ vresult # Undefined
  /\ \E d \in ValidateInputs : vdata' = d
  /\ vresult' = Undefined
  /\ UNCHANGED <<storeVars, uiVars>>

NextValidate == CallValidate \/ NextValidatable

SpecValidate == InitValidate /\ [][NextValidate]_vars

-----------------------------------------------------------------------------
(* The store with a listener that calls it back: SpecReentrant.            *)

\* What a callback that calls the store does before it returns: nothing,
\* or one of addListener, addProject and moveProject when a handler's own
\* updateListeners invoked it; always nothing when the updateListeners of
\* its own call did (a callback that called the store every time would
\* never return).  The call runs at once, inside the forEach that invoked the
\* callback; a nested updateListeners runs to its end before that forEach
\* moves on.
ReentrantCall(did) ==
  \/ /\ did = "read"
     /\ stack' = Return(Advance(stack))
     /\ UNCHANGED <<projects, listeners>>
  \/ /\ did = "addListener"
     /\ Len(stack) = 1
     /\ Len(listeners) < MaxListeners
     /\ \E fn \in Readers : listeners' = PushListener(listeners, fn)
     /\ stack' = Return(Advance(stack))
     /\ UNCHANGED projects
  \/ /\ did = "addProject"
     /\ Len(stack) = 1
     /\ Len(projects) < MaxProjects
     /\ \E rnd \in RandomStrings, t \in Triples :
          projects' = PushProject(projects, rnd, t[1], t[2], t[3])
     /\ stack' = Return(ForEachStart(Advance(stack), listeners))
     /\ UNCHANGED listeners
  \/ /\ did = "moveProject"
     /\ Len(stack) = 1
     /\ \E id \in RandomStrings, st \in ProjectStatus :
          LET r == MoveResult(projects, id, st)
          IN  /\ projects' = r.projects
              /\ stack' = Return(IF r.notify
                                 THEN ForEachStart(Advance(stack), listeners)
                                 ELSE Advance(stack))
     /\ UNCHANGED listeners

NotifyReentrant ==
  /\ stack # << >>
  /\ Current(stack, listeners) \in Reentrant
  /\ \E did \in {"read", "addListener", "addProject", "moveProject"} :
       /\ calls' = Append(calls, Call(Current(stack, listeners),
                                      Spread(projects, Len(calls)), did))
       /\ ReentrantCall(did)
  /\ UNCHANGED <<op, error, assigned, uiVars, valVars>>

SubscribeReentrant ==
  /\ \E fn \in Reentrant : AddListener(fn)
  /\ UNCHANGED <<uiVars, valVars>>

SubscribeReader ==
  /\ \E fn \in Readers : AddListener(fn)
  /\ UNCHANGED <<uiVars, valVars>>

NextReentrant ==
  \/ SubscribeReader
  \/ SubscribeReentrant
  \/ Create
  \/ Transition
  \/ Callback
  \/ NotifyReentrant

SpecReentrant == Init /\ [][NextReentrant]_vars

-----------------------------------------------------------------------------
(* The store with a listener that throws: SpecFault.                       *)

\* A callback that may throw.
Throwers == {"thrower"}

\* The exception of a callback, as the caller of addProject or moveProject
\* receives it.
FaultError == "Error"

\* An updateListeners that catches the exception of a callback and goes on
\* with the next listener.
UnwindCaught(stk) == Return(Advance(stk))

\* Nothing between the callback and the event handler catches: the
\* exception ends forEach, updateListeners and addProject or moveProject.
Unwind(stk) == << >>

\* One callback of updateListeners for a listener that may throw.
NotifyThrow ==
  /\ stack # << >>
  /\ Current(stack, listeners) \in Throwers
  /\ \E did \in {"read", "throw"} :
       /\ calls' = Append(calls, Call(Current(stack, listeners),
                                      Spread(projects, Len(calls)), did))
       /\ IF did = "throw"
          THEN stack' = Unwind(stack) /\ error' = FaultError
          ELSE stack' = Return(Advance(stack)) /\ error' = error
  /\ UNCHANGED <<projects, listeners, op, assigned, uiVars, valVars>>

SubscribeThrower ==
  /\ \E fn \in Throwers : AddListener(fn)
  /\ UNCHANGED <<uiVars, valVars>>

NextFault ==
  \/ SubscribeReader
  \/ SubscribeThrower
  \/ Create
  \/ Transition
  \/ Callback
  \/ NotifyThrow

SpecFault == Init /\ [][NextFault]_vars

-----------------------------------------------------------------------------
(* The claims.                                                             *)

Occurrences(q, x) == Cardinality({k \in 1..Len(q) : q[k] = x})

Range(q) == {q[k] : k \in 1..Len(q)}

\* The listeners called since the last handler began, in the order called.
CallFns == [k \in 1..Len(calls) |-> calls[k].fn]

\* The data model of a project: a title of 5 to 40 trimmed characters, a
\* description of 1 to 140 trimmed characters, 1 to 10 people (an integer).
ValidTriple(args) ==
  /\ Len(Trim(args[1])) >= 5 /\ Len(Trim(args[1])) <= 40
  /\ Len(Trim(args[2])) >= 1 /\ Len(Trim(args[2])) <= 140
  /\ ~args[3].nan /\ args[3].tenths % 10 = 0
  /\ args[3].tenths >= 10 /\ args[3].tenths <= 100

\* addProject and every callback of its updateListeners have returned.
AddProjectDone == op.name = "addProject" /\ stack = << >>

\* moveProject and every callback of its updateListeners have returned.
MoveProjectDone == op.name = "moveProject" /\ stack = << >>

\* The project addProject was asked to create.
NewProject == Project(op.id, op.args[1], op.args[2], op.args[3], Active)

C2_MoveChangesExactlyP ==
  \A k \in 1..Len(op.pre) :
    ( /\ MoveProjectDone
      /\ op.status = Finished
      /\ op.pre[k].id = op.id
      /\ op.pre[k].status = Active ) =>
      /\ projects = [op.pre EXCEPT ![k].status = Finished]
      /\ CallFns = listeners
      /\ \A c \in 1..Len(calls) :
           calls[c].elems = [op.pre EXCEPT ![k].status = Finished]

\* C3 as stated: for every project p of the store, moveProject(p.id,
\* p.status) changes nothing and invokes no observer.
C3_SameStatusNoOp ==
  \A k \in 1..Len(op.pre) :
    ( /\ op.name = "moveProject"
      /\ op.pre[k].id = op.id
      /\ op.pre[k].status = op.status ) =>
      /\ projects = op.pre
      /\ ~op.notify
      /\ calls = << >>
      /\ stack = << >>

\* C4: moveProject with an id that no project of the store has leaves the
\* store's sequence as it was, raises no error and invokes no observer.
C4_UnknownIdNoOp ==
  ( /\ op.name = "moveProject"
    /\ \A k \in 1..Len(op.pre) : op.pre[k].id # op.id ) =>
    /\ projects = op.pre
    /\ error = NoError
    /\ ~op.notify
    /\ calls = << >>
    /\ stack = << >>

\* C4 witness: moveProject was called with an unknown id on a store that
\* holds a project and has a listener.
C4_Witness ==
  /\ op.name = "moveProject"
  /\ \A k \in 1..Len(op.pre) : op.pre[k].id # op.id
  /\ Len(op.pre) >= 1
  /\ Len(listeners) >= 1

\* C5 as stated: no two projects of the store have the same id.
C5_UniqueIds ==
  \A i, j \in 1..Len(projects) : i # j => projects[i].id # projects[j].id

\* The constraint sets of the form: a title of 5 to 40 trimmed characters,
\* a description of 1 to 140 trimmed characters, a number of people that
\* is given, numeric and between 1 and 10.
FormTitleOk(f) == Len(Trim(f.title)) >= 5 /\ Len(Trim(f.title)) <= 40

FormDescOk(f) == Len(Trim(f.desc)) >= 1 /\ Len(Trim(f.desc)) <= 140

FormPeopleOk(f) ==
  /\ Trim(f.people) # << >>
  /\ ~ToNumber(f.people).nan
  /\ ToNumber(f.people).tenths >= 10
  /\ ToNumber(f.people).tenths <= 100

\* C6: a submission with a field that fails its constraint set does not
\* call addProject: the store's sequence stays as it was, no observer is
\* invoked, and the rejection message is shown.
C6_InvalidSubmitRejected ==
  [][ (submitHandler /\ ~(FormTitleOk(form) /\ FormDescOk(form) /\ FormPeopleOk(form)))
        => /\ projects' = projects
           /\ listeners' = listeners
           /\ assigned' = assigned
           /\ stack' = << >>
           /\ calls' = << >>
           /\ op'.name = "submitHandler"
           /\ alert' = InvalidAlert ]_vars

\* C6 witness: after one project was created, a submission with an empty
\* description was rejected; the store holds that one Active project.
C6_Witness ==
  /\ op.name = "submitHandler"
  /\ alert = InvalidAlert
  /\ form.desc = << >> /\ FormTitleOk(form) /\ FormPeopleOk(form)
  /\ Len(projects) = 1
  /\ projects[1].status = Active

\* Whether one constraint of a Validatable is satisfied; a constraint that
\* is absent, or whose type is not the value's, is satisfied.
RequiredHolds(d) ==
  d.required = Some(TRUE) => Trim(ValueToString(d.value)) # << >>

MinLengthHolds(d) ==
  (d.minLength # Undefined /\ d.value.type = "string")
    => Len(Trim(d.value.str)) >= d.minLength[1]

MaxLengthHolds(d) ==
  (d.maxLength # Undefined /\ d.value.type = "string")
    => Len(Trim(d.value.str)) <= d.maxLength[1]

MinHolds(d) ==
  (d.min # Undefined /\ d.value.type = "number")
    => (~d.value.num.nan /\ d.value.num.tenths >= d.min[1].tenths)

MaxHolds(d) ==
  (d.max # Undefined /\ d.value.type = "number")
    => (~d.value.num.nan /\ d.value.num.tenths <= d.max[1].tenths)

\* C7: validate returns true exactly when every supplied constraint is
\* satisfied on its own.
C7_ValidateConjunctive ==
  vresult # Undefined =>
    ( vresult[1] <=> ( /\ RequiredHolds(vdata)
                       /\ MinLengthHolds(vdata)
                       /\ MaxLengthHolds(vdata)
                       /\ MinHolds(vdata)
                       /\ MaxHolds(vdata) ) )

\* C7 witness: validate returned false for the number 0 with required, a
\* minLength (which does not apply to a number), min 1 and max 10: 0 is
\* present and fails min alone.
C7_Witness ==
  /\ vresult = Some(FALSE)
  /\ vdata.value = NumberValue(Num(0))
  /\ vdata.required = Some(TRUE)
  /\ vdata.minLength = Some(5)
  /\ vdata.min = Some(Num(1))
  /\ vdata.max = Some(Num(10))

\* C8: addListener registers at the end of the list, and in a round of
\* notification the listeners are invoked in the order of registration, a
\* listener registered k times k times.
C8_RegistrationOrder ==
  /\ op.name = "addListener" => listeners = Append(op.listeners, op.id)
  /\ op.notify => /\ Len(calls) <= Len(listeners)
                  /\ CallFns = SubSeq(listeners, 1, Len(calls))
  /\ (op.notify /\ stack = << >>) => CallFns = listeners

\* C8 witness: a round has ended in which two different observers were
\* invoked in the order of their registration.
C8_Witness ==
  /\ op.notify /\ stack = << >>
  /\ listeners = <<"readerB", "readerA">>
  /\ CallFns = <<"readerB", "readerA">>

\* C9: every callback receives an array instance of its own, never the
\* store's array; whatever a callback does to the array it received, the
\* store's sequence and what the later callbacks receive stay the sequence
\* the handler left.
C9_DefensiveCopy ==
  /\ \A k \in 1..Len(calls) : calls[k].ref # ProjectsRef
  /\ \A j, k \in 1..Len(calls) : j # k => calls[j].ref # calls[k].ref
  /\ op.notify => /\ projects = op.post
                  /\ \A k \in 1..Len(calls) : calls[k].elems = op.post

\* C9 witness: an observer removed an element of the array it received, and
\* another observer was notified after it.
C9_Witness ==
  /\ Len(calls) = 2
  /\ calls[1].fn \in Mutators /\ calls[1].did = "pop"
  /\ calls[1].elems # << >>
  /\ calls[2].fn \in Readers

\* C10 as stated: once a handler has begun to notify, no store operation
\* takes effect before all its callbacks have returned.
C10_NothingDuringRound ==
  [][ stack # << >> => (projects' = projects /\ listeners' = listeners) ]_vars

\* C10 amended: while callbacks are pending, every step is the next
\* callback: no event handler begins, and the store's sequence and the
\* listener list change only by a call that this callback itself makes.
C10_OnlyCallbacksDuringRound ==
  [][ stack # << >> =>
        /\ op' = op
        /\ Len(calls') = Len(calls) + 1
        /\ SubSeq(calls', 1, Len(calls)) = calls
        /\ calls'[Len(calls')].fn = Current(stack, listeners)
        /\ (projects' # projects \/ listeners' # listeners)
             => /\ Current(stack, listeners) \in Reentrant
                /\ calls'[Len(calls')].did \in {"addListener", "addProject", "moveProject"}
    ]_vars

\* C10 witness: callbacks of a handler are still pending, and one of them
\* has called addProject: the store already holds the project it added.
C10_Witness ==
  /\ stack # << >>
  /\ \E k \in 1..Len(calls) : calls[k].fn \in Reentrant /\ calls[k].did = "addProject"
  /\ Len(projects) = Len(op.post) + 1

\* The ids of the projects of a sequence, in its order.
Ids(ps) == [k \in 1..Len(ps) |-> ps[k].id]

IsPrefix(a, b) == Len(a) <= Len(b) /\ SubSeq(b, 1, Len(a)) = a

\* C11: the store's sequence is append-only in insertion order: in every
\* step the ids held before are a prefix of the ids held after, and after
\* addProject or moveProject the ids the handler found are a prefix of the
\* ids of the store, so that no project is removed or changes its place.
C11_AppendOnly ==
  [][ /\ IsPrefix(Ids(projects), Ids(projects'))
      /\ (Create \/ Transition) => IsPrefix(Ids(op'.pre), Ids(projects')) ]_vars

\* C11 witness: moveProject changed the status of the first of two projects
\* with different ids, and its callbacks have returned.
C11_Witness ==
  /\ MoveProjectDone /\ op.notify
  /\ Len(op.pre) = 2
  /\ op.pre[1].id = op.id /\ op.pre[2].id # op.id
  /\ projects[1].status # op.pre[1].status
  /\ Len(calls) >= 1

\* The last handler was a create, or a transition that changed the status
\* of a project.
Mutated ==
  \/ op.name = "addProject"
  \/ op.name = "moveProject" /\ op.post # op.pre

\* C12: observers are notified exactly when the store changes.  The
\* callbacks are counted handler by handler (calls starts empty with every
\* handler, so the count over a sequence of operations is the sum of these):
\* an observer registered once is invoked once by a create and by a
\* transition that changed a status, and not at all by any other operation;
\* every invocation carries the store's sequence as the mutation left it,
\* which is the store's sequence at that moment and not the one before.
C12_NotifiedOnChange ==
  /\ ~Mutated => (calls = << >> /\ stack = << >>)
  /\ stack = << >> =>
        \A fn \in Range(op.listeners) :
          Occurrences(op.listeners, fn) = 1 =>
            Occurrences(CallFns, fn) = IF Mutated THEN 1 ELSE 0
  /\ \A k \in 1..Len(calls) :
        /\ calls[k].elems = op.post
        /\ calls[k].elems = projects
        /\ calls[k].elems # op.pre

\* C12 witness: a transition that changed a status has invoked each of two
\* observers registered once, and the store holds two projects.
C12_Witness ==
  /\ MoveProjectDone /\ op.post # op.pre
  /\ Len(projects) = 2
  /\ Len(op.listeners) = 2 /\ op.listeners[1] # op.listeners[2]
  /\ Occurrences(CallFns, op.listeners[1]) = 1
  /\ Occurrences(CallFns, op.listeners[2]) = 1

\* C13: addListener appends the observer to the end of the list and does
\* nothing else: it invokes no observer, starts no round and leaves the
\* store's sequence and the columns as they were; and no step of any
\* operation removes an observer or changes the place of one.
C13_AddListenerOnlyAppends ==
  [][ /\ IsPrefix(listeners, listeners')
      /\ Subscribe => /\ listeners' = Append(listeners, op'.id)
                      /\ op'.name = "addListener"
                      /\ projects' = projects
                      /\ assigned' = assigned
                      /\ calls' = << >>
                      /\ stack' = << >> ]_vars

\* C13 witness: a second, different observer was registered on a store
\* that holds a project; nothing was invoked.
C13_Witness ==
  /\ op.name = "addListener"
  /\ Len(listeners) = 2 /\ listeners[1] # listeners[2]
  /\ listeners[2] = op.id
  /\ Len(projects) >= 1
  /\ calls = << >>

\* The last handler was moveProject(p.id, Finished) on a store that held
\* the one Active project p, with two different observers registered.
OneMoveTwoObservers ==
  /\ MoveProjectDone
  /\ Len(op.pre) = 1
  /\ op.pre[1].status = Active
  /\ op.id = op.pre[1].id /\ op.status = Finished
  /\ Len(op.listeners) = 2 /\ op.listeners[1] # op.listeners[2]

\* Each of the two observers was invoked once, and both received the
\* sequence that holds p as Finished.
BothOnceAndEqual ==
  /\ Len(calls) = 2
  /\ Occurrences(CallFns, op.listeners[1]) = 1
  /\ Occurrences(CallFns, op.listeners[2]) = 1
  /\ calls[1].elems = calls[2].elems
  /\ calls[1].elems = <<[op.pre[1] EXCEPT !.status = Finished]>>

\* No callback since the last handler began has called addProject or
\* moveProject itself.
NoMutationByObserver ==
  \A k \in 1..Len(calls) : calls[k].did \notin {"addProject", "moveProject"}

\* The callbacks of the round the last handler itself started (a round
\* that a callback started has depth 2).
HandlerRound == {k \in 1..Len(calls) : calls[k].depth = 1}

\* C14 as stated: after one project was created and two observers were
\* subscribed, one transition of it to Finished invokes each observer once
\* with identical sequences; and all the observers notified in one round
\* received equal sequences.
C14_AllReceiveEqual ==
  /\ OneMoveTwoObservers => BothOnceAndEqual
  /\ \A j, k \in HandlerRound : calls[j].elems = calls[k].elems

\* C14 amended: the same, provided no observer calls addProject or
\* moveProject from inside its callback.
C14_EqualUnlessObserverMutates ==
  NoMutationByObserver =>
    /\ OneMoveTwoObservers => BothOnceAndEqual
    /\ HandlerRound = 1..Len(calls)
    /\ \A j, k \in HandlerRound : calls[j].elems = calls[k].elems

\* C14 witness: the transition of the one project to Finished has invoked
\* two different observers, one of which is able to call the store but did
\* not, and both received the same sequence.
C14_Witness ==
  /\ OneMoveTwoObservers /\ NoMutationByObserver
  /\ \E k \in 1..2 : op.listeners[k] \in Reentrant
  /\ Len(calls) = 2
  /\ calls[1].elems = calls[2].elems
  /\ projects[1].status = Finished

\* C15: addProject never fails and validates nothing: whatever (title,
\* description, people) it is given, it appends an Active project that
\* holds exactly these values, raises no error, and notifies every
\* registered observer with the sequence that ends in the new project.
C15_CreateTakesAnything ==
  /\ op.name = "addProject" =>
        /\ op.post = Append(op.pre, NewProject)
        /\ NewProject.title = op.args[1]
        /\ NewProject.desc = op.args[2]
        /\ NewProject.people = op.args[3]
        /\ error = NoError
        /\ op.notify
        /\ \A k \in 1..Len(calls) : calls[k].elems = op.post
  /\ AddProjectDone =>
        /\ projects = Append(op.pre, NewProject)
        /\ CallFns = listeners

\* C15 witness: addProject was given an empty title, an empty description
\* and 11 people; the store holds that project and both observers were
\* notified.
C15_Witness ==
  /\ AddProjectDone /\ ~ValidTriple(op.args)
  /\ op.args[1] = << >> /\ op.args[3] = Num(11)
  /\ projects[Len(projects)].title = << >>
  /\ projects[Len(projects)].people = Num(11)
  /\ projects[Len(projects)].status = Active
  /\ Len(calls) = 2

\* C16: when an observer throws during a round, the handler ends there
\* with that exception: the observers registered after it are not invoked
\* in that round, and the store keeps the mutation that started the round
\* (the appended project, the changed status).
C16_FaultStopsRound ==
  error = FaultError =>
    /\ stack = << >>
    /\ calls # << >>
    /\ calls[Len(calls)].did = "throw"
    /\ \A k \in 1..(Len(calls) - 1) : calls[k].did # "throw"
    /\ CallFns = SubSeq(listeners, 1, Len(calls))
    /\ projects = op.post
    /\ op.post # op.pre
    /\ op.name = "addProject" => projects = Append(op.pre, NewProject)
    /\ op.name = "moveProject" =>
         \E k \in 1..Len(op.pre) :
           /\ op.pre[k].status # op.status
           /\ projects = [op.pre EXCEPT ![k].status = op.status]

\* C16 witness: the first of two observers threw in the round of a
\* moveProject; the second was not invoked, and the project has the new
\* status.
C16_Witness ==
  /\ error = FaultError
  /\ op.name = "moveProject"
  /\ Len(listeners) = 2 /\ listeners[1] \in Throwers /\ listeners[2] \in Readers
  /\ Len(calls) = 1
  /\ projects[1].status = Finished /\ op.pre[1].status = Active

\* C17 as stated.  The drag of a card puts the project's id, and nothing
\* else, into dataTransfer, so a drop knows the card only by op.id: every
\* project p of the store with that id may be the one whose card was
\* dragged.  For each such p, after the drop on a column p has the column's
\* status and no other project has changed; and when p was in that column
\* already, nothing has changed and no observer was invoked.
C17_DropMovesDraggedCard ==
  \A p \in 1..Len(op.pre) :
    (op.name = "moveProject" /\ op.pre[p].id = op.id) =>
      /\ stack = << >> =>
            /\ projects[p].status = op.status
            /\ \A q \in 1..Len(op.pre) : q # p => projects[q] = op.pre[q]
      /\ op.pre[p].status = op.status =>
            /\ projects = op.pre
            /\ ~op.notify
            /\ calls = << >>

\* C18: no step of any operation changes the id, the title, the description
\* or the number of people of a project the store holds, and the status of
\* a project changes only in a moveProject that was given that project's
\* id.
C18_FieldsImmutable ==
  [][ \A k \in 1..Len(projects) :
        /\ k <= Len(projects')
        /\ projects'[k].id = projects[k].id
        /\ projects'[k].title = projects[k].title
        /\ projects'[k].desc = projects[k].desc
        /\ projects'[k].people = projects[k].people
        /\ projects'[k].status # projects[k].status =>
             /\ Transition
             /\ op'.name = "moveProject"
             /\ op'.id = projects[k].id
             /\ op'.status = projects'[k].status ]_vars

\* C18 witness: after the first of two projects was moved to Finished and
\* back to Active, both still hold the values they were created with.
C18_Witness ==
  /\ MoveProjectDone /\ op.notify /\ op.status = Active
  /\ Len(projects) = 2
  /\ projects[1].id = op.id
  /\ projects[1].title = Rep("a", 5) /\ projects[1].people = Num(3)
  /\ projects[2].title = << >> /\ projects[2].people = Num(11)
  /\ Len(calls) >= 1

\* A project of the store satisfies the data model.
SatisfiesDataModel(p) == ValidTriple(<<p.title, p.desc, p.people>>)

\* C19 as stated: every project that entered the store through the form
\* (gatherUserInput, then addProject) has a title of 5 to 40 trimmed
\* characters, a description of 1 to 140 trimmed characters, and a number
\* of people that is an integer from 1 to 10.
C19_StoredSatisfyDataModel ==
  \A k \in 1..Len(projects) : SatisfiesDataModel(projects[k])

\* The projects (as indices into the store's array) that have the status,
\* in store order.
WithStatus(status) == {k \in 1..Len(projects) : projects[k].status = status}

IsIncreasing(q) == \A i, j \in 1..Len(q) : i < j => q[i] < q[j]

\* C20: whenever no store operation is in progress, the two columns
\* partition the store: the active column holds exactly the Active
\* projects and the finished column exactly the Finished ones, both in
\* store order, and every project is in exactly one of the columns.
C20_ColumnsPartitionStore ==
  Idle =>
    /\ Range(assigned["active"]) = WithStatus(Active)
    /\ Range(assigned["finished"]) = WithStatus(Finished)
    /\ IsIncreasing(assigned["active"])
    /\ IsIncreasing(assigned["finished"])
    /\ \A k \in 1..Len(projects) :
         Occurrences(assigned["active"], k) + Occurrences(assigned["finished"], k) = 1

\* C20 witness: after a drop moved the first of two projects to the
\* finished column, each column shows one project.
C20_Witness ==
  /\ Idle
  /\ op.name = "moveProject" /\ op.notify
  /\ Len(projects) = 2
  /\ assigned["finished"] = <<1>>
  /\ assigned["active"] = <<2>>

====
